---- MODULE Spec2Model ----
(***************************************************************************)
(* Model of next-proxies-pod: the ProcessManager that supervises the       *)
(* sing-box worker (src/src/process/mod.rs) and the reporting scheduler    *)
(* with its producer, its consumer and the top-level shutdown              *)
(* (src/src/main.rs), together with the configuration cache of             *)
(* ConfigManager (src/src/config/mod.rs).                                  *)
(*                                                                         *)
(* Every await point of the Rust code is a separate step, so that the      *)
(* tasks of the tokio runtime (main, consumer, producer, one exit-watcher  *)
(* per spawned child) interleave as they do on a multi-threaded runtime.   *)
(***************************************************************************)
EXTENDS Integers, Sequences, FiniteSets, TLC

(* ---------------------------- bounds ---------------------------------- *)
MaxSpawns == 2      \* worker processes the OS lets the program spawn
MaxTime == 2        \* seconds of wall-clock time that are explored
MaxTicks == 2       \* periods of the producer's Interval that are explored
MaxCycle == 2       \* largest reporting_cycle the server hands out
MaxRuntime == 1     \* distinct runtime (sing-box) configurations served

(* ------------------------ program constants --------------------------- *)
ChannelCapacity == 100   \* mpsc::channel::<ReportingTask>(100)
ReloadDelay == 1         \* Duration::from_secs(1) of the windows reload

ProcIds == 1..MaxSpawns
Threads == {"main", "consumer"}
Platforms == {"unix", "windows"}
ReportingTask == {"FetchConfig", "PostStats", "ReloadConfig"}
ConfigResponse == [runtime : 1..MaxRuntime, reporting_cycle : 0..MaxCycle]
NoFile == 0               \* runtime_path was never written

VARIABLES
    platform,       \* cfg(unix) or cfg(windows) build
    procState,      \* OS view of each child: unborn, alive, zombie, reaped
    spawned,        \* number of children spawned so far
    pid,            \* ProcessManager.pid: 0 is None, p is Some(p)
    pid_guard,      \* holder of the Mutex around ProcessManager.pid
    watcher,        \* position of the exit-watcher task of each child
    termSent,       \* children a terminate request was delivered to
    hupSent,        \* children a SIGHUP was delivered to
    waits,          \* per child: number of terminal waits performed on it
    stack,          \* per thread: call stack of code positions, top first
    result,         \* per thread: value returned by the last finished call
    lpid,           \* per thread: the local `pid` read from the slot
    child,          \* per thread: the `child` spawned by start()
    wake,           \* per thread: deadline of tokio::time::sleep
    now,            \* wall-clock time in seconds
    ppc,            \* position of reporting_tasks_producer
    interval_secs,  \* the producer's parameter
    t0,             \* time at which the producer's Interval was created
    deadline,       \* next deadline of the producer's Interval
    queue,          \* the mpsc channel
    emitted,        \* every task the producer has sent
    trace,          \* every task the consumer has dequeued
    inflight,       \* number of tasks handle() is executing
    config,         \* ConfigManager.config
    file,           \* content of runtime_path
    fetch_status,   \* ConfigManager.fetch_status
    reloads,        \* reload() calls made since fetch_status was recorded
    logged,         \* task kind if the last finished task logged an error!
    sigSeen         \* the CTRL+C signal was received

procVars == <<procState, spawned, pid, watcher, termSent, hupSent, waits>>
callVars == <<result, lpid, child, wake>>
prodVars == <<ppc, interval_secs, t0, deadline, emitted>>
consVars == <<trace, inflight, logged>>
cfgVars == <<config, file, fetch_status, reloads>>
vars == <<platform, procState, spawned, pid, pid_guard, watcher, termSent, hupSent, waits,
          stack, result, lpid, child, wake, now, ppc, interval_secs, t0,
          deadline, queue, emitted, trace, inflight, logged, config, file,
          fetch_status, reloads, sigSeen>>

(* ------------------------- call-stack helpers ------------------------- *)
Top(t) == IF stack[t] = <<>> THEN "none" ELSE Head(stack[t])
Goto(t, f) == [stack EXCEPT ![t] = <<f>> \o Tail(@)]
Call(t, ret, f) == [stack EXCEPT ![t] = <<f, ret>> \o Tail(@)]
Return(t) == [stack EXCEPT ![t] = Tail(@)]

\* The tokio runtime lives until main returns; its tasks stop with it.
RuntimeUp == Top("main") # "exit"

(* ------------------------------ Init ---------------------------------- *)
\* State when main reaches setup_process_manager: ConfigManager::new has
\* fetched successfully once (it unwraps the result), ProcessManager::new
\* left the slot empty, nothing is spawned yet.
Init ==
    /\ platform \in Platforms
    /\ procState = [p \in ProcIds |-> "unborn"]
    /\ spawned = 0
    /\ pid = 0
    /\ pid_guard = "free"
    /\ watcher = [p \in ProcIds |-> "idle"]
    /\ termSent = {}
    /\ hupSent = {}
    /\ waits = [p \in ProcIds |-> 0]
    /\ stack = [t \in Threads |-> IF t = "main" THEN <<"setup">> ELSE <<>>]
    /\ result = [t \in Threads |-> "none"]
    /\ lpid = [t \in Threads |-> 0]
    /\ child = [t \in Threads |-> 0]
    /\ wake = [t \in Threads |-> 0]
    /\ now = 0
    /\ ppc = "unspawned"
    /\ interval_secs = 0
    /\ t0 = 0
    /\ deadline = 0
    /\ queue = <<>>
    /\ emitted = <<>>
    /\ trace = <<>>
    /\ inflight = 0
    /\ logged = "none"
    /\ config \in ConfigResponse
    /\ file \in {config.runtime, NoFile}
    /\ fetch_status = "Updated"
    /\ reloads = 0
    /\ sigSeen = FALSE

(* ----------------------- the worker process (OS) ---------------------- *)
\* The child terminates, on its own or because of a delivered signal; it
\* stays a zombie until somebody waits on it.
ProcExit(p) ==
    /\ procState[p] = "alive"
    /\ procState' = [procState EXCEPT ![p] = "zombie"]
    /\ UNCHANGED <<platform, pid_guard, spawned, pid, watcher, termSent, hupSent, waits,
                   stack, callVars, now, prodVars, queue, consVars, cfgVars, sigSeen>>

\* kill(2) / OpenProcess: the request reaches a process that still exists.
Exists(p) == p \in ProcIds /\ procState[p] \in {"alive", "zombie"}

(* ------------------------ ProcessManager::start ----------------------- *)
\* command.spawn()?  (and current_dir()?): an OS error returns Err, else
\* the child runs and start() goes on to lock the slot.
start_spawn(t) ==
    /\ RuntimeUp
    /\ Top(t) = "start_spawn"
    /\ \/ /\ stack' = Return(t)
          /\ result' = [result EXCEPT ![t] = "err"]
          /\ UNCHANGED <<procState, spawned, child>>
       \/ /\ spawned < MaxSpawns
          /\ spawned' = spawned + 1
          /\ procState' = [procState EXCEPT ![spawned + 1] = "alive"]
          /\ child' = [child EXCEPT ![t] = spawned + 1]
          /\ stack' = Goto(t, "start_acquire")
          /\ UNCHANGED result
    /\ UNCHANGED <<platform, pid_guard, pid, watcher, termSent, hupSent, waits, lpid, wake,
                   now, prodVars, queue, consVars, cfgVars, sigSeen>>

\* let mut pid_guard = self.pid.lock().await: start() is suspended until
\* nobody holds the guard.
start_acquire(t) ==
    /\ RuntimeUp
    /\ Top(t) = "start_acquire"
    /\ pid_guard = "free"
    /\ pid_guard' = t
    /\ stack' = Goto(t, "start_lock")
    /\ UNCHANGED <<platform, procVars, callVars, now, prodVars, queue,
                   consVars, cfgVars, sigSeen>>

\* *pid_guard = child.id() and the guard is dropped; then the reader tasks
\* and the exit-watcher are spawned and start() returns Ok (no await in
\* between).
start_lock(t) ==
    /\ RuntimeUp
    /\ Top(t) = "start_lock"
    /\ pid_guard' = "free"
    /\ pid' = child[t]
    /\ watcher' = [watcher EXCEPT ![child[t]] = "waiting"]
    /\ stack' = Return(t)
    /\ result' = [result EXCEPT ![t] = "ok"]
    /\ child' = [child EXCEPT ![t] = 0]
    /\ UNCHANGED <<platform, procState, spawned, termSent, hupSent, waits, lpid,
                   wake, now, prodVars, queue, consVars, cfgVars, sigSeen>>

(* --------------------------- exit-watcher ----------------------------- *)
\* guard.take() always yields the child; ch.wait().await returns once the
\* child has terminated, and reaps it.
watcher_wait(p) ==
    /\ RuntimeUp
    /\ watcher[p] = "waiting"
    /\ procState[p] = "zombie"
    /\ procState' = [procState EXCEPT ![p] = "reaped"]
    /\ waits' = [waits EXCEPT ![p] = @ + 1]
    /\ watcher' = [watcher EXCEPT ![p] = "acquire"]
    /\ UNCHANGED <<platform, pid_guard, spawned, pid, termSent, hupSent, stack, callVars,
                   now, prodVars, queue, consVars, cfgVars, sigSeen>>

\* let mut pid_guard = pid_ref.lock().await: the exit-watcher is suspended
\* until nobody holds the guard.
watcher_acquire(p) ==
    /\ RuntimeUp
    /\ watcher[p] = "acquire"
    /\ pid_guard = "free"
    /\ pid_guard' = "watcher"
    /\ watcher' = [watcher EXCEPT ![p] = "clear"]
    /\ UNCHANGED <<platform, procState, spawned, pid, termSent, hupSent, waits,
                   stack, callVars, now, prodVars, queue, consVars, cfgVars,
                   sigSeen>>

\* Variant of watcher_clear that leaves the slot as it is.
watcher_clear_forgets(p) ==
    /\ RuntimeUp
    /\ watcher[p] = "clear"
    /\ pid' = pid
    /\ pid_guard' = "free"
    /\ watcher' = [watcher EXCEPT ![p] = "done"]
    /\ UNCHANGED <<platform, procState, spawned, termSent, hupSent, waits, stack,
                   callVars, now, prodVars, queue, consVars, cfgVars, sigSeen>>

\* *pid_guard = None, whatever the slot holds; the guard is dropped at the
\* end of the task.
watcher_clear(p) ==
    /\ RuntimeUp
    /\ watcher[p] = "clear"
    /\ pid' = 0
    /\ pid_guard' = "free"
    /\ watcher' = [watcher EXCEPT ![p] = "done"]
    /\ UNCHANGED <<platform, procState, spawned, termSent, hupSent, waits, stack,
                   callVars, now, prodVars, queue, consVars, cfgVars, sigSeen>>

(* ------------------------ ProcessManager::stop ------------------------ *)
\* self.pid.lock().await of stop(): suspended until nobody holds the
\* guard.
stop_acquire(t) ==
    /\ RuntimeUp
    /\ Top(t) = "stop_acquire"
    /\ pid_guard = "free"
    /\ pid_guard' = t
    /\ stack' = Goto(t, "stop_lock")
    /\ UNCHANGED <<platform, procVars, callVars, now, prodVars, queue,
                   consVars, cfgVars, sigSeen>>

\* Variant of stop_lock that keeps the guard while stop() goes on to signal
\* the worker.
stop_lock_holds(t) ==
    /\ RuntimeUp
    /\ Top(t) = "stop_lock"
    /\ lpid' = [lpid EXCEPT ![t] = pid]
    /\ pid_guard' = IF pid # 0 THEN pid_guard ELSE "free"
    /\ IF pid # 0
          THEN /\ stack' = Goto(t, "stop_kill")
               /\ UNCHANGED result
          ELSE /\ stack' = Return(t)
               /\ result' = [result EXCEPT ![t] = "ok"]
    /\ UNCHANGED <<platform, procVars, child, wake, now, prodVars, queue,
                   consVars, cfgVars, sigSeen>>

\* Variant of stop_lock that reports an empty slot as an error.
stop_lock_strict(t) ==
    /\ RuntimeUp
    /\ Top(t) = "stop_lock"
    /\ lpid' = [lpid EXCEPT ![t] = pid]
    /\ pid_guard' = "free"
    /\ IF pid # 0
          THEN /\ stack' = Goto(t, "stop_kill")
               /\ UNCHANGED result
          ELSE /\ stack' = Return(t)
               /\ result' = [result EXCEPT ![t] = "err"]
    /\ UNCHANGED <<platform, procVars, child, wake, now, prodVars, queue,
                   consVars, cfgVars, sigSeen>>

\* let pid = *self.pid.lock().await: the slot is copied and the guard is
\* dropped with the statement; the None branch only logs.
stop_lock(t) ==
    /\ RuntimeUp
    /\ Top(t) = "stop_lock"
    /\ lpid' = [lpid EXCEPT ![t] = pid]
    /\ pid_guard' = "free"
    /\ IF pid # 0
          THEN /\ stack' = Goto(t, "stop_kill")
               /\ UNCHANGED result
          ELSE /\ stack' = Return(t)
               /\ result' = [result EXCEPT ![t] = "ok"]
    /\ UNCHANGED <<platform, procVars, child, wake, now, prodVars, queue,
                   consVars, cfgVars, sigSeen>>

\* Variant of stop_kill in which stop() also waits on the child it signalled.
stop_kill_waits(t) ==
    /\ RuntimeUp
    /\ Top(t) = "stop_kill"
    /\ termSent' = IF Exists(lpid[t]) THEN termSent \cup {lpid[t]}
                                      ELSE termSent
    /\ stack' = Return(t)
    /\ result' = [result EXCEPT ![t] = "ok"]
    /\ lpid' = [lpid EXCEPT ![t] = 0]
    /\ waits' = [waits EXCEPT ![lpid[t]] = @ + 1]
    /\ UNCHANGED <<platform, pid_guard, procState, spawned, pid, watcher, hupSent,
                   child, wake, now, prodVars, queue, consVars, cfgVars,
                   sigSeen>>

\* kill(pid, SIGTERM) on unix, OpenProcess + TerminateProcess on windows;
\* the outcome is only logged and stop() returns Ok without waiting.
stop_kill(t) ==
    /\ RuntimeUp
    /\ Top(t) = "stop_kill"
    /\ termSent' = IF Exists(lpid[t]) THEN termSent \cup {lpid[t]}
                                      ELSE termSent
    /\ stack' = Return(t)
    /\ result' = [result EXCEPT ![t] = "ok"]
    /\ lpid' = [lpid EXCEPT ![t] = 0]
    /\ UNCHANGED <<platform, pid_guard, procState, spawned, pid, watcher, hupSent, waits,
                   child, wake, now, prodVars, queue, consVars, cfgVars,
                   sigSeen>>

(* ----------------------- ProcessManager::reload ----------------------- *)
\* cfg(unix): self.pid.lock().await of reload().
reload_acquire(t) ==
    /\ RuntimeUp
    /\ Top(t) = "reload_acquire"
    /\ pid_guard = "free"
    /\ pid_guard' = t
    /\ stack' = Goto(t, "reload_lock")
    /\ UNCHANGED <<platform, procVars, callVars, now, prodVars, queue,
                   consVars, cfgVars, sigSeen>>

\* cfg(unix): the slot is copied and the guard dropped; None is the
\* NotFound error.
reload_lock(t) ==
    /\ RuntimeUp
    /\ Top(t) = "reload_lock"
    /\ lpid' = [lpid EXCEPT ![t] = pid]
    /\ pid_guard' = "free"
    /\ IF pid # 0
          THEN /\ stack' = Goto(t, "reload_kill")
               /\ UNCHANGED result
          ELSE /\ stack' = Return(t)
               /\ result' = [result EXCEPT ![t] = "err"]
    /\ UNCHANGED <<platform, procVars, child, wake, now, prodVars, queue,
                   consVars, cfgVars, sigSeen>>

\* Variant of reload_kill that asks the worker to terminate.
reload_kill_terminates(t) ==
    /\ RuntimeUp
    /\ Top(t) = "reload_kill"
    /\ IF Exists(lpid[t])
          THEN /\ termSent' = termSent \cup {lpid[t]}
               /\ result' = [result EXCEPT ![t] = "ok"]
          ELSE /\ result' = [result EXCEPT ![t] = "err"]
               /\ UNCHANGED termSent
    /\ stack' = Return(t)
    /\ lpid' = [lpid EXCEPT ![t] = 0]
    /\ UNCHANGED <<platform, pid_guard, procState, spawned, pid, watcher, hupSent,
                   waits, child, wake, now, prodVars, queue, consVars,
                   cfgVars, sigSeen>>

\* kill(pid, SIGHUP): Err when the OS refuses it, Ok otherwise.
reload_kill(t) ==
    /\ RuntimeUp
    /\ Top(t) = "reload_kill"
    /\ IF Exists(lpid[t])
          THEN /\ hupSent' = hupSent \cup {lpid[t]}
               /\ result' = [result EXCEPT ![t] = "ok"]
          ELSE /\ result' = [result EXCEPT ![t] = "err"]
               /\ UNCHANGED hupSent
    /\ stack' = Return(t)
    /\ lpid' = [lpid EXCEPT ![t] = 0]
    /\ UNCHANGED <<platform, pid_guard, procState, spawned, pid, watcher, termSent,
                   waits, child, wake, now, prodVars, queue, consVars,
                   cfgVars, sigSeen>>

\* cfg(windows): self.stop().await? has returned Ok ...
\* ... tokio::time::sleep(1 s).await ...
reload_win_sleep(t) ==
    /\ RuntimeUp
    /\ Top(t) = "reload_win_sleep"
    /\ wake' = [wake EXCEPT ![t] = now + ReloadDelay]
    /\ stack' = Goto(t, "reload_win_start")
    /\ UNCHANGED <<platform, pid_guard, procVars, result, lpid, child, now, prodVars,
                   queue, consVars, cfgVars, sigSeen>>

\* ... self.start().await, whose result is reload()'s result.
reload_win_start(t) ==
    /\ RuntimeUp
    /\ Top(t) = "reload_win_start"
    /\ now >= wake[t]
    /\ stack' = Goto(t, "start_spawn")
    /\ wake' = [wake EXCEPT ![t] = 0]
    /\ UNCHANGED <<platform, pid_guard, procVars, result, lpid, child, now, prodVars,
                   queue, consVars, cfgVars, sigSeen>>

\* A call of reload() that returns to position ret: the unix variant
\* starts by reading the slot, the windows variant by calling stop().
reload(t, ret) ==
    IF platform = "unix"
       THEN Call(t, ret, "reload_acquire")
       ELSE [stack EXCEPT ![t] = <<"stop_acquire", "reload_win_sleep", ret>>
                                    \o Tail(@)]

(* --------------------- ProcessManager::is_running --------------------- *)
\* let pid = *self.pid.lock().await; pid.is_some()
is_running == pid # 0

(* ------------------------------- clock -------------------------------- *)
\* Time is measured from the creation of the producer's Interval, the
\* first place where the program looks at the clock.
Advance ==
    /\ RuntimeUp
    /\ ppc \notin {"unspawned", "interval"}
    /\ now < MaxTime
    /\ now' = now + 1
    /\ UNCHANGED <<platform, pid_guard, procVars, stack, callVars, prodVars, queue,
                   consVars, cfgVars, sigSeen>>

(* ----------------------- reporting_tasks_producer --------------------- *)
\* tokio::time::interval(period) panics on a zero period, which ends the
\* producer task; otherwise the first tick is due immediately.
producer_interval ==
    /\ RuntimeUp
    /\ ppc = "interval"
    /\ IF interval_secs = 0
          THEN ppc' = "ended" /\ UNCHANGED <<t0, deadline>>
          ELSE ppc' = "first_tick" /\ t0' = now /\ deadline' = now
    /\ UNCHANGED <<platform, pid_guard, procVars, stack, callVars, now, interval_secs,
                   emitted, queue, consVars, cfgVars, sigSeen>>

\* Variant of producer_tick whose period is re-read from the configuration.
producer_tick_rereads ==
    /\ RuntimeUp
    /\ ppc \in {"first_tick", "tick"}
    /\ deadline <= MaxTicks * interval_secs
    /\ now >= deadline
    /\ deadline' = deadline + config.reporting_cycle
    /\ ppc' = IF ppc = "first_tick" THEN "tick" ELSE "send_FetchConfig"
    /\ UNCHANGED <<platform, pid_guard, procVars, stack, callVars, now, interval_secs,
                   t0, emitted, queue, consVars, cfgVars, sigSeen>>

\* Variant of producer_tick that emits on the first tick as well.
producer_tick_noskip ==
    /\ RuntimeUp
    /\ ppc \in {"first_tick", "tick"}
    /\ deadline <= MaxTicks * interval_secs
    /\ now >= deadline
    /\ deadline' = deadline + interval_secs
    /\ ppc' = "send_FetchConfig"
    /\ UNCHANGED <<platform, pid_guard, procVars, stack, callVars, now, interval_secs,
                   t0, emitted, queue, consVars, cfgVars, sigSeen>>

\* interval.tick().await, before the loop (emits nothing) and in the loop.
producer_tick ==
    /\ RuntimeUp
    /\ ppc \in {"first_tick", "tick"}
    /\ deadline <= MaxTicks * interval_secs
    /\ now >= deadline
    /\ deadline' = deadline + interval_secs
    /\ ppc' = IF ppc = "first_tick" THEN "tick" ELSE "send_FetchConfig"
    /\ UNCHANGED <<platform, pid_guard, procVars, stack, callVars, now, interval_secs,
                   t0, emitted, queue, consVars, cfgVars, sigSeen>>

\* The three sends of one loop iteration, in program order.
NextSend(task) ==
    CASE task = "FetchConfig" -> "send_PostStats"
      [] task = "PostStats" -> "send_ReloadConfig"
      [] task = "ReloadConfig" -> "tick"

\* Variant of producer_send that gives up a task when the channel is full.
producer_send_drops(task) ==
    /\ RuntimeUp
    /\ ppc = "send_" \o task
    /\ IF Top("consumer") = "ended"
          THEN ppc' = "ended" /\ UNCHANGED <<queue, emitted>>
          ELSE /\ queue' = IF Len(queue) < ChannelCapacity
                              THEN Append(queue, task) ELSE queue
               /\ emitted' = Append(emitted, task)
               /\ ppc' = NextSend(task)
    /\ UNCHANGED <<platform, pid_guard, procVars, stack, callVars, now, interval_secs,
                   t0, deadline, consVars, cfgVars, sigSeen>>

\* tx.send(task).await: an error (receiver gone) breaks the loop, a full
\* channel suspends the producer, otherwise the task is appended.
producer_send(task) ==
    /\ RuntimeUp
    /\ ppc = "send_" \o task
    /\ IF Top("consumer") = "ended"
          THEN ppc' = "ended" /\ UNCHANGED <<queue, emitted>>
          ELSE /\ Len(queue) < ChannelCapacity
               /\ queue' = Append(queue, task)
               /\ emitted' = Append(emitted, task)
               /\ ppc' = NextSend(task)
    /\ UNCHANGED <<platform, pid_guard, procVars, stack, callVars, now, interval_secs,
                   t0, deadline, consVars, cfgVars, sigSeen>>

(* ----------------------- reporting_tasks_consumer --------------------- *)
\* Variant of consumer_recv that takes the newest task of the queue.
consumer_recv_lifo ==
    /\ RuntimeUp
    /\ Top("consumer") = "recv"
    /\ IF queue # <<>>
          THEN /\ queue' = SubSeq(queue, 1, Len(queue) - 1)
               /\ trace' = Append(trace, queue[Len(queue)])
               /\ inflight' = inflight + 1
               /\ stack' = Goto("consumer", "handle_" \o queue[Len(queue)])
          ELSE /\ ppc = "ended"
               /\ stack' = Goto("consumer", "ended")
               /\ UNCHANGED <<queue, trace, inflight>>
    /\ UNCHANGED <<platform, pid_guard, procVars, callVars, now, prodVars, logged,
                   cfgVars, sigSeen>>

\* rx.recv().await: the next task in arrival order, or None once the
\* channel is empty and the sender is dropped, which ends the loop.
consumer_recv ==
    /\ RuntimeUp
    /\ Top("consumer") = "recv"
    /\ IF queue # <<>>
          THEN /\ queue' = Tail(queue)
               /\ trace' = Append(trace, Head(queue))
               /\ inflight' = inflight + 1
               /\ stack' = Goto("consumer", "handle_" \o Head(queue))
          ELSE /\ ppc = "ended"
               /\ stack' = Goto("consumer", "ended")
               /\ UNCHANGED <<queue, trace, inflight>>
    /\ UNCHANGED <<platform, pid_guard, procVars, callVars, now, prodVars, logged,
                   cfgVars, sigSeen>>

\* The status a successful fetch records: the fetched configuration
\* compared with the one applied before.
FetchStatus(old, new) == IF new = old THEN "Unchanged" ELSE "Updated"

\* Variant of handle_FetchConfig in which a fetch error ends the consumer.
handle_FetchConfig_propagates ==
    /\ RuntimeUp
    /\ Top("consumer") = "handle_FetchConfig"
    /\ \/ /\ logged' = "FetchConfig"
          /\ UNCHANGED <<config, file, fetch_status, reloads>>
       \/ \E response \in ConfigResponse, written \in BOOLEAN :
             /\ logged' = "none"
             /\ config' = response
             /\ file' = IF written THEN response.runtime ELSE file
             /\ fetch_status' = FetchStatus(config, response)
             /\ reloads' = 0
    /\ inflight' = inflight - 1
    /\ stack' = Goto("consumer", IF logged' = "FetchConfig" THEN "ended"
                                                             ELSE "recv")
    /\ UNCHANGED <<platform, pid_guard, procVars, callVars, now, prodVars, queue, trace, sigSeen>>

\* ConfigManager::fetch as called by the FetchConfig task: get_config()?
\* fails and leaves everything alone, or the response replaces the cached
\* configuration and is written to runtime_path (a write error is only
\* logged). handle() logs the error; the loop goes on.
handle_FetchConfig ==
    /\ RuntimeUp
    /\ Top("consumer") = "handle_FetchConfig"
    /\ \/ /\ logged' = "FetchConfig"
          /\ UNCHANGED <<config, file, fetch_status, reloads>>
       \/ \E response \in ConfigResponse, written \in BOOLEAN :
             /\ logged' = "none"
             /\ config' = response
             /\ file' = IF written THEN response.runtime ELSE file
             /\ fetch_status' = FetchStatus(config, response)
             /\ reloads' = 0
    /\ inflight' = inflight - 1
    /\ stack' = Goto("consumer", "recv")
    /\ UNCHANGED <<platform, pid_guard, procVars, callVars, now, prodVars, queue, trace, sigSeen>>

\* query_all_stats(true) then post_stats(stats): either may fail, the
\* failure is logged.
handle_PostStats ==
    /\ RuntimeUp
    /\ Top("consumer") = "handle_PostStats"
    /\ \E failed \in BOOLEAN : logged' = IF failed THEN "PostStats" ELSE "none"
    /\ inflight' = inflight - 1
    /\ stack' = Goto("consumer", "recv")
    /\ UNCHANGED <<platform, pid_guard, procVars, callVars, now, prodVars, queue, trace,
                   cfgVars, sigSeen>>

\* Variant of handle_ReloadConfig that reloads whatever the status is.
handle_ReloadConfig_unguarded ==
    /\ RuntimeUp
    /\ Top("consumer") = "handle_ReloadConfig"
    /\ IF fetch_status \in {"Updated", "Unchanged"}
          THEN /\ stack' = reload("consumer", "handle_reload_ret")
               /\ reloads' = reloads + 1
               /\ UNCHANGED <<inflight, logged>>
          ELSE /\ stack' = Goto("consumer", "recv")
               /\ inflight' = inflight - 1
               /\ logged' = "none"
               /\ UNCHANGED reloads
    /\ UNCHANGED <<platform, pid_guard, procVars, callVars, now, prodVars, queue, trace,
                   config, file, fetch_status, sigSeen>>

\* if matches!(config.fetch_status, Some(Updated)) { manager.reload() }
handle_ReloadConfig ==
    /\ RuntimeUp
    /\ Top("consumer") = "handle_ReloadConfig"
    /\ IF fetch_status = "Updated"
          THEN /\ stack' = reload("consumer", "handle_reload_ret")
               /\ reloads' = reloads + 1
               /\ UNCHANGED <<inflight, logged>>
          ELSE /\ stack' = Goto("consumer", "recv")
               /\ inflight' = inflight - 1
               /\ logged' = "none"
               /\ UNCHANGED reloads
    /\ UNCHANGED <<platform, pid_guard, procVars, callVars, now, prodVars, queue, trace,
                   config, file, fetch_status, sigSeen>>

\* reload() returned: Ok or Err is logged, the task is over.
handle_reload_ret ==
    /\ RuntimeUp
    /\ Top("consumer") = "handle_reload_ret"
    /\ result' = [result EXCEPT !["consumer"] = "none"]
    /\ logged' = IF result["consumer"] = "err" THEN "ReloadConfig" ELSE "none"
    /\ inflight' = inflight - 1
    /\ stack' = Goto("consumer", "recv")
    /\ UNCHANGED <<platform, pid_guard, procVars, lpid, child, wake, now, prodVars,
                   queue, trace, cfgVars, sigSeen>>

(* -------------------------------- main -------------------------------- *)
\* setup_process_manager: manager.start().await
main_setup ==
    /\ Top("main") = "setup"
    /\ stack' = Call("main", "setup_ret", "start_spawn")
    /\ UNCHANGED <<platform, pid_guard, procVars, callVars, now, prodVars, queue,
                   consVars, cfgVars, sigSeen>>

\* Variant of main_setup_ret that goes on when start() has failed.
main_setup_ret_ignores ==
    /\ Top("main") = "setup_ret"
    /\ stack' = Goto("main", "v2ray_new")
    /\ result' = [result EXCEPT !["main"] = "none"]
    /\ UNCHANGED <<platform, pid_guard, procVars, lpid, child, wake, now, prodVars,
                   queue, consVars, cfgVars, sigSeen>>

\* `?` on the result of setup_process_manager: Err ends main.
main_setup_ret ==
    /\ Top("main") = "setup_ret"
    /\ stack' = Goto("main", IF result["main"] = "ok" THEN "v2ray_new"
                                                      ELSE "exit")
    /\ result' = [result EXCEPT !["main"] = "none"]
    /\ UNCHANGED <<platform, pid_guard, procVars, lpid, child, wake, now, prodVars,
                   queue, consVars, cfgVars, sigSeen>>

\* V2rayApi::new(..).await?: Err ends main; Ok goes on to the select!,
\* whose first poll runs spawn_reporting_tasks up to its own select!:
\* interval_secs is read from the configuration, consumer and producer
\* are spawned.
main_v2ray_new ==
    /\ Top("main") = "v2ray_new"
    /\ \/ /\ stack' = Goto("main", "exit")
          /\ UNCHANGED <<ppc, interval_secs>>
       \/ /\ stack' = [stack EXCEPT !["main"] = <<"select">>,
                                    !["consumer"] = <<"recv">>]
          /\ interval_secs' = config.reporting_cycle
          /\ ppc' = "interval"
    /\ UNCHANGED <<platform, pid_guard, procVars, callVars, now, t0, deadline, emitted,
                   queue, consVars, cfgVars, sigSeen>>

\* select!: signal::ctrl_c() completes ...
main_ctrl_c ==
    /\ Top("main") = "select"
    /\ sigSeen' = TRUE
    /\ stack' = Goto("main", "shutdown")
    /\ UNCHANGED <<platform, pid_guard, procVars, callVars, now, prodVars, queue,
                   consVars, cfgVars>>

\* ... or spawn_reporting_tasks returns because the consumer or the
\* producer task has ended.
main_reporting_done ==
    /\ Top("main") = "select"
    /\ ppc = "ended" \/ Top("consumer") = "ended"
    /\ stack' = Goto("main", "shutdown")
    /\ UNCHANGED <<platform, pid_guard, procVars, callVars, now, prodVars, queue,
                   consVars, cfgVars, sigSeen>>

\* shutdown_manager calls is_running(), whose self.pid.lock().await
\* suspends main until nobody holds the guard.
is_running_acquire ==
    /\ Top("main") = "shutdown"
    /\ pid_guard = "free"
    /\ pid_guard' = "main"
    /\ stack' = Goto("main", "is_running")
    /\ UNCHANGED <<platform, procVars, callVars, now, prodVars, queue,
                   consVars, cfgVars, sigSeen>>

\* shutdown_manager: if manager.is_running() { manager.stop().await };
\* is_running() reads the slot and drops the guard; with nothing owned
\* main goes straight to "Program exit".
shutdown_manager ==
    /\ Top("main") = "is_running"
    /\ pid_guard' = "free"
    /\ stack' = IF is_running THEN Call("main", "stop_ret", "stop_acquire")
                              ELSE Goto("main", "exit")
    /\ UNCHANGED <<platform, procVars, callVars, now, prodVars, queue,
                   consVars, cfgVars, sigSeen>>

\* "Program exit": main returns and the runtime is dropped.
main_exit ==
    /\ Top("main") = "stop_ret"
    /\ stack' = Goto("main", "exit")
    /\ result' = [result EXCEPT !["main"] = "none"]
    /\ UNCHANGED <<platform, pid_guard, procVars, lpid, child, wake, now, prodVars,
                   queue, consVars, cfgVars, sigSeen>>

(* ------------------------------- Next --------------------------------- *)
Next ==
    \/ \E p \in ProcIds : ProcExit(p)
    \/ \E p \in ProcIds : watcher_wait(p)
    \/ \E p \in ProcIds : watcher_acquire(p)
    \/ \E p \in ProcIds : watcher_clear(p)
    \/ \E t \in Threads : start_spawn(t)
    \/ \E t \in Threads : start_acquire(t)
    \/ \E t \in Threads : start_lock(t)
    \/ \E t \in Threads : stop_acquire(t)
    \/ \E t \in Threads : stop_lock(t)
    \/ \E t \in Threads : stop_kill(t)
    \/ \E t \in Threads : reload_acquire(t)
    \/ \E t \in Threads : reload_lock(t)
    \/ \E t \in Threads : reload_kill(t)
    \/ \E t \in Threads : reload_win_sleep(t)
    \/ \E t \in Threads : reload_win_start(t)
    \/ Advance
    \/ producer_interval
    \/ producer_tick
    \/ \E task \in ReportingTask : producer_send(task)
    \/ consumer_recv
    \/ handle_FetchConfig
    \/ handle_PostStats
    \/ handle_ReloadConfig
    \/ handle_reload_ret
    \/ main_setup
    \/ main_setup_ret
    \/ main_v2ray_new
    \/ main_ctrl_c
    \/ main_reporting_done
    \/ is_running_acquire
    \/ shutdown_manager
    \/ main_exit

Spec == Init /\ [][Next]_vars

\* Scheduling of the tokio runtime: a task that stays runnable is polled,
\* and a task that holds the guard runs on to the point where it drops it.
Fairness ==
    /\ \A p \in ProcIds : /\ WF_vars(watcher_wait(p))
                          /\ WF_vars(watcher_acquire(p))
                          /\ WF_vars(watcher_clear(p))
    /\ WF_vars(\E t \in Threads : start_lock(t) \/ stop_lock(t) \/ reload_lock(t))
    /\ WF_vars(shutdown_manager)
    /\ \A task \in ReportingTask : WF_vars(producer_send(task))
    /\ WF_vars(consumer_recv)

FairSpec == Spec /\ Fairness

(* ------------------- a consumer that has fallen behind ---------------- *)
\* The tasks of n whole cycles, in the order in which they are sent.
Backlog(n) ==
    [i \in 1..(3 * n) |-> CASE i % 3 = 1 -> "FetchConfig"
                            [] i % 3 = 2 -> "PostStats"
                            [] OTHER -> "ReloadConfig"]

\* Whole cycles that fit into the channel next to the task in flight.
StalledCycles == (ChannelCapacity - 1) \div 3

\* The program after StalledCycles periods in which the consumer has been
\* waiting for the server's answer to its first FetchConfig: the worker
\* runs, main is in its select!, the producer has sent every triple and is
\* about to await the next tick, and all tasks but the first are queued.
\* The clock's origin is this moment, so the Interval was created
\* StalledCycles periods ago.
InitStalled ==
    /\ platform \in Platforms
    /\ procState = [p \in ProcIds |-> IF p = 1 THEN "alive" ELSE "unborn"]
    /\ spawned = 1
    /\ pid = 1
    /\ pid_guard = "free"
    /\ watcher = [p \in ProcIds |-> IF p = 1 THEN "waiting" ELSE "idle"]
    /\ termSent = {}
    /\ hupSent = {}
    /\ waits = [p \in ProcIds |-> 0]
    /\ stack = [t \in Threads |-> IF t = "main" THEN <<"select">>
                                                ELSE <<"handle_FetchConfig">>]
    /\ result = [t \in Threads |-> "none"]
    /\ lpid = [t \in Threads |-> 0]
    /\ child = [t \in Threads |-> 0]
    /\ wake = [t \in Threads |-> 0]
    /\ now = 0
    /\ ppc = "tick"
    /\ config \in ConfigResponse
    /\ config.reporting_cycle > 0
    /\ interval_secs = config.reporting_cycle
    /\ t0 = 0 - StalledCycles * interval_secs
    /\ deadline = interval_secs
    /\ emitted = Backlog(StalledCycles)
    /\ trace = <<"FetchConfig">>
    /\ queue = Tail(emitted)
    /\ inflight = 1
    /\ logged = "none"
    /\ file \in {config.runtime, NoFile}
    /\ fetch_status = "Updated"
    /\ reloads = 0
    /\ sigSeen = FALSE

\* The steps of the scheduler: the clock, the producer, the consumer and
\* the Supervisor calls the consumer makes. The steps left out (main, the
\* worker's exit and its exit-watcher) leave queue, emitted and trace alone.
NextScheduler ==
    \/ Advance
    \/ producer_tick
    \/ \E task \in ReportingTask : producer_send(task)
    \/ consumer_recv
    \/ handle_FetchConfig
    \/ handle_PostStats
    \/ handle_ReloadConfig
    \/ handle_reload_ret
    \/ \E t \in Threads : start_spawn(t)
    \/ \E t \in Threads : start_acquire(t)
    \/ \E t \in Threads : start_lock(t)
    \/ \E t \in Threads : stop_acquire(t)
    \/ \E t \in Threads : stop_lock(t)
    \/ \E t \in Threads : stop_kill(t)
    \/ \E t \in Threads : reload_acquire(t)
    \/ \E t \in Threads : reload_lock(t)
    \/ \E t \in Threads : reload_kill(t)
    \/ \E t \in Threads : reload_win_sleep(t)
    \/ \E t \in Threads : reload_win_start(t)

\* The scheduler from the state in which the consumer has fallen
\* StalledCycles periods behind, while main waits in its select! and the
\* worker keeps running.
StalledSpec == InitStalled /\ [][NextScheduler]_vars

(* ====================================================================== *)
(*                               Claims                                   *)
(* ====================================================================== *)
StartIssued ==
    \E t \in Threads : Top(t) \in {"start_spawn", "start_acquire", "start_lock"}
Live == {p \in ProcIds : procState[p] = "alive"}
Triple == <<"FetchConfig", "PostStats", "ReloadConfig">>
InCycleOrder(seq) == \A i \in 1..Len(seq) : seq[i] = Triple[((i - 1) % 3) + 1]
ConsumerMoves == stack'["consumer"] # stack["consumer"]

\* C1: in every state in which a stop() call has returned and no start()
\* was issued after it (main is back in shutdown_manager, or the windows
\* reload is between its stop() and its start()), the slot is empty, so
\* is_running() is false, and no worker process is left alive or unreaped.
AfterStop ==
    \/ Top("main") = "stop_ret"
    \/ Top("consumer") \in {"reload_win_sleep", "reload_win_start"}

C1_StopLeavesNothingRunning ==
    (AfterStop /\ ~StartIssued) =>
        /\ ~is_running
        /\ \A p \in ProcIds : procState[p] \in {"unborn", "reaped"}

C3_AtMostOneLiveProcess ==
    /\ [](Cardinality(Live) <= 1)
    /\ [][spawned' # spawned => pid = 0]_vars

\* C4: the ReloadConfig task calls reload() only if fetch_status is
\* Updated; the status a FetchConfig task recorded is still the recorded
\* status when the ReloadConfig task runs, and when it is Unchanged the
\* task ends at once, sends no signal and spawns no process.
ConsumerInReload ==
    Top("consumer") \in {"reload_acquire", "reload_lock", "reload_kill",
                         "reload_win_sleep", "reload_win_start",
                         "stop_acquire", "stop_lock", "stop_kill",
                         "start_spawn", "start_acquire", "start_lock",
                         "handle_reload_ret"}

C4_ReloadOnlyWhenUpdated ==
    /\ [](ConsumerInReload => fetch_status = "Updated")
    /\ [][(Top("consumer") = "handle_ReloadConfig" /\ ConsumerMoves
           /\ fetch_status = "Unchanged") =>
              /\ stack'["consumer"] = <<"recv">>
              /\ UNCHANGED <<procState, spawned, hupSent, termSent>>]_vars
    /\ [][fetch_status' # fetch_status =>
              Top("consumer") = "handle_FetchConfig"]_vars

\* C4 witness: a ReloadConfig task has finished right after a FetchConfig
\* that produced Unchanged.
C4_Witness ==
    /\ fetch_status = "Unchanged"
    /\ Top("consumer") = "recv"
    /\ trace # <<>> /\ trace[Len(trace)] = "ReloadConfig"

\* C5: the consumer executes the tasks of every cycle in the order
\* FetchConfig, PostStats, ReloadConfig, cycle after cycle, in the order
\* in which they entered the queue, and never two tasks at a time.
C5_TraceInCycleOrder ==
    /\ InCycleOrder(trace)
    /\ Len(trace) <= Len(emitted)
    /\ trace = SubSeq(emitted, 1, Len(trace))
    /\ inflight <= 1

\* C5 witness: the consumer has executed two whole cycles.
C5_Witness == Len(trace) = 6 /\ inflight = 0

\* C6: once the producer's interval of N seconds exists, nothing is
\* emitted before N seconds have elapsed; every elapsed interval accounts
\* for at most one triple, sent in the order FetchConfig, PostStats,
\* ReloadConfig, and the producer is back at its tick only with whole
\* triples sent.
C6_FirstTickSkipped ==
    /\ ppc \in {"unspawned", "interval", "first_tick"} => emitted = <<>>
    /\ interval_secs = 0 => emitted = <<>>
    /\ interval_secs > 0 =>
          /\ now < t0 + interval_secs => emitted = <<>>
          /\ now >= t0 => Len(emitted) <= 3 * ((now - t0) \div interval_secs)
    /\ InCycleOrder(emitted)
    /\ ppc = "tick" => Len(emitted) % 3 = 0

\* C6 witness: exactly one interval has elapsed and exactly the first
\* triple is enqueued.
C6_Witness ==
    /\ ppc = "tick" /\ interval_secs > 0
    /\ now = t0 + interval_secs
    /\ emitted = Triple

\* C7: an error inside a task never ends the consumer loop: the step that
\* logs the error takes the consumer back to rx.recv() with the queue
\* untouched, the consumer ends only after the producer has, and after a
\* failed FetchConfig the PostStats task of the same cycle is executed
\* (as long as the program runs).
C7_ErrorsAbsorbed ==
    /\ [](Top("consumer") = "ended" => ppc = "ended")
    /\ [][(logged' # "none" /\ logged' # logged) =>
              /\ stack'["consumer"] = <<"recv">>
              /\ queue' = queue]_vars
    /\ (logged = "FetchConfig") ~>
          (~RuntimeUp \/ (trace # <<>> /\ trace[Len(trace)] = "PostStats"))

\* C7 witness: FetchConfig failed and the PostStats task of that cycle is
\* executing.
C7_Witness ==
    /\ logged = "FetchConfig"
    /\ Top("consumer") = "handle_PostStats"

\* C8: when the worker exits on its own while owned, the exit is
\* eventually recorded (the slot becomes empty, as long as the program
\* runs); an empty slot stays empty until a start() fills it, and a
\* start() that returns Ok has put its new child in the slot.
C8_CrashRecordedAndRestartable ==
    /\ \A p \in ProcIds :
          (pid = p /\ procState[p] = "zombie") ~> (~is_running \/ ~RuntimeUp)
    /\ [][(~is_running /\ is_running') =>
              \E t \in Threads : /\ Top(t) = "start_lock"
                                 /\ stack'[t] # stack[t]]_vars
    /\ [][\A t \in Threads :
            (Top(t) = "start_lock" /\ stack'[t] # stack[t]) =>
                /\ result'[t] = "ok"
                /\ pid' = child[t]
                /\ procState[child[t]] # "unborn"]_vars

\* C8 witness: a child that was never asked to terminate has exited and
\* was recorded, and a later start() has put a new live child in the slot.
C8_Witness ==
    \E p, q \in ProcIds :
        /\ p # q
        /\ procState[p] = "reaped" /\ watcher[p] = "done" /\ p \notin termSent
        /\ pid = q /\ procState[q] = "alive"

\* C9: after the shutdown signal no task is produced or started, the
\* task in flight has finished when the program exits, and the worker has
\* terminated by then.
C9_CooperativeShutdown ==
    /\ [][sigSeen => (emitted' = emitted /\ trace' = trace)]_vars
    /\ []((sigSeen /\ ~RuntimeUp) => (inflight = 0 /\ Live = {}))

\* C10 (as stated): a loop tick schedules the next one after the reporting
\* interval of the configuration that is active at that moment.
LoopTick == ppc = "tick" /\ ppc' = "send_FetchConfig"

C11_ReloadWithoutProcess ==
    /\ [][(ConsumerInReload /\ Top("consumer") # "handle_reload_ret"
           /\ ~is_running) =>
              UNCHANGED <<spawned, procState, termSent, hupSent, pid>>
              \/ \E p \in ProcIds : ProcExit(p) \/ watcher_wait(p)]_vars
    /\ [][(Top("consumer") = "reload_lock" /\ ~is_running /\ ConsumerMoves) =>
              /\ stack'["consumer"] = Tail(stack["consumer"])
              /\ result'["consumer"] = "err"]_vars

\* C12: a start() whose spawn fails returns the error and touches neither
\* the slot nor any process and creates no exit-watcher; as long as no
\* worker was ever spawned the slot is empty and no scheduler task exists;
\* and at startup the failure takes main straight to its exit.
C12_SpawnFailure ==
    /\ [][\A t \in Threads :
            (Top(t) = "start_spawn" /\ stack'[t] # stack[t]
             /\ spawned' = spawned) =>
                /\ stack'[t] = Tail(stack[t])
                /\ result'[t] = "err"
                /\ UNCHANGED <<pid, watcher, procState>>]_vars
    /\ [](spawned = 0 =>
            /\ ~is_running
            /\ \A p \in ProcIds : watcher[p] = "idle"
            /\ ppc = "unspawned" /\ emitted = <<>>
            /\ Top("consumer") = "none")
    /\ [][(Top("main") = "setup_ret" /\ result["main"] = "err"
           /\ stack' # stack) => stack'["main"] = <<"exit">>]_vars

\* C12 witness: the program has ended because the first start() failed.
C12_Witness == Top("main") = "exit" /\ spawned = 0

\* C13: a stop() that finds the slot empty returns Ok in that very step
\* and changes nothing else: no signal, no process, no slot, no watcher.
C13_StopWithoutProcessIsNoOp ==
    [][\A t \in Threads :
         (Top(t) = "stop_lock" /\ ~is_running /\ stack'[t] # stack[t]) =>
             /\ stack'[t] = Tail(stack[t])
             /\ result'[t] = "ok"
             /\ UNCHANGED <<procVars, prodVars, consVars, cfgVars, queue>>]_vars

\* C13 witness: main called stop() because is_running() was true, the
\* exit-watcher emptied the slot in between, and stop() is reading it.
C13_Witness ==
    /\ stack["main"] = <<"stop_lock", "stop_ret">>
    /\ ~is_running
    /\ termSent = {}

\* C15: a start() that returns Ok has recorded its child in the slot in
\* the step in which it returns, and from then on the slot is emptied only
\* when the recorded process has exited or a stop() has been called on it.
C15_RunningUntilExitOrStop ==
    /\ [][\A t \in Threads :
            (Top(t) = "start_lock" /\ stack'[t] # stack[t]) =>
                (result'[t] = "ok" /\ pid' = child[t] /\ is_running')]_vars
    /\ [][(is_running /\ ~is_running') =>
              \/ procState[pid] \in {"zombie", "reaped"}
              \/ pid \in termSent]_vars

\* C16: the signal-based reload() (its two steps, reading the slot and
\* sending SIGHUP) spawns nothing, asks no process to terminate, reaps
\* nothing and leaves the slot as it is; it returns Ok exactly when the
\* signal was delivered to the process read from the slot, and an error
\* otherwise.
C16_SignalReloadIsSelfLoop ==
    /\ [](Top("consumer") \in {"reload_acquire", "reload_lock", "reload_kill"} =>
             platform = "unix")
    /\ [][(Top("consumer") \in {"reload_acquire", "reload_lock", "reload_kill"}
           /\ ConsumerMoves) =>
              UNCHANGED <<spawned, procState, termSent, pid, watcher,
                          waits>>]_vars
    /\ [][(Top("consumer") = "reload_kill" /\ ConsumerMoves) =>
              /\ stack'["consumer"] = Tail(stack["consumer"])
              /\ IF Exists(lpid["consumer"])
                    THEN /\ result'["consumer"] = "ok"
                         /\ hupSent' = hupSent \cup {lpid["consumer"]}
                    ELSE /\ result'["consumer"] = "err"
                         /\ hupSent' = hupSent]_vars

\* C16 witness: reload() has returned Ok after signalling the owned worker,
\* which is still the owned, running worker.
C16_Witness ==
    /\ Top("consumer") = "handle_reload_ret"
    /\ result["consumer"] = "ok"
    /\ is_running /\ pid \in hupSent /\ procState[pid] = "alive"

\* C18: the queue never holds more than its capacity and nothing is lost
\* or reordered: the tasks the producer has sent are the tasks the consumer
\* has dequeued followed by the queue.
C18_BoundedLosslessQueue ==
    /\ Len(queue) <= ChannelCapacity
    /\ emitted = trace \o queue

\* C18 witness: the queue is full, the consumer is stalled inside a task
\* and the producer is suspended in the send of the next task.
C18_Witness ==
    /\ Len(queue) = ChannelCapacity
    /\ inflight = 1
    /\ ppc = "send_ReloadConfig"

\* C20: a FetchConfig task that fails leaves the cached configuration, the
\* recorded status and the configuration file as they were; after one
\* that succeeds the file holds the configuration that is now cached.
C20_FetchAllOrNothing ==
    /\ [][(Top("consumer") = "handle_FetchConfig" /\ ConsumerMoves
           /\ logged' = "FetchConfig") =>
              UNCHANGED <<config, fetch_status, file>>]_vars
    /\ [][(Top("consumer") = "handle_FetchConfig" /\ ConsumerMoves
           /\ logged' # "FetchConfig") =>
              file' = config'.runtime]_vars

\* C14: is_running() never waits for the guard: whenever main calls it
\* while another task holds the guard, main can go on at once.
C14_IsRunningNeverWaits ==
    (RuntimeUp /\ Top("main") = "shutdown" /\ pid_guard # "free") =>
        ENABLED (Next /\ stack'["main"] # stack["main"])

\* C17: the guard is held only inside a critical section, by one task at
\* a time: the holder is at the statement that reads or writes the slot,
\* never in the wait for the worker's exit, in a signal call, in the
\* settling delay or in the wait for the guard itself, and it can always
\* go on and drop the guard.
CriticalSection == {"start_lock", "stop_lock", "reload_lock", "is_running"}
Holders ==
    {t \in Threads : Top(t) \in CriticalSection}
        \cup {p \in ProcIds : watcher[p] = "clear"}

C17_GuardNotHeldAcrossWait ==
    /\ \A t \in Threads : pid_guard = t <=> Top(t) \in CriticalSection
    /\ pid_guard = "watcher" <=> \E p \in ProcIds : watcher[p] = "clear"
    /\ Cardinality(Holders) <= 1
    /\ (RuntimeUp /\ pid_guard # "free") =>
           ENABLED (Next /\ pid_guard' = "free")

\* C17 witness: a task is inside a critical section while an exit-watcher
\* is in its blocking wait on a live worker and main waits for the guard.
C17_Witness ==
    /\ pid_guard = "consumer"
    /\ Top("main") = "shutdown"
    /\ \E p \in ProcIds : watcher[p] = "waiting" /\ procState[p] = "alive"

\* C21: the exit-watcher of worker p empties the slot only if the slot
\* holds p, and leaves a slot that holds another worker as it is; so the
\* slot is never empty while the most recently started worker is alive and
\* no terminate request was sent to it.
C21_WatcherClearsOnlyOwnSlot ==
    /\ [][\A p \in ProcIds :
            (watcher[p] = "clear" /\ watcher'[p] = "done") =>
                pid' = IF pid = p THEN 0 ELSE pid]_vars
    /\ [](\A p \in ProcIds :
            (p = spawned /\ watcher[p] # "idle" /\ procState[p] = "alive"
             /\ p \notin termSent) => is_running)

\* C22: whenever stop() or reload() issues its signal, the worker whose
\* identifier was read from the slot has not been waited on yet.
C22_NoSignalAfterReap ==
    [][\A t \in Threads :
         (Top(t) \in {"stop_kill", "reload_kill"} /\ stack'[t] # stack[t]) =>
             procState[lpid[t]] # "reaped"]_vars

\* C24: once a worker was started, main reaches its exit with a worker
\* still recorded in the slot only by returning from the stop() that
\* shutdown_manager called.
C24_StopBeforeExit ==
    [][(RuntimeUp /\ ~RuntimeUp' /\ spawned > 0 /\ is_running) =>
           Top("main") = "stop_ret"]_vars

\* C23: no more than one reload() is called on the strength of one
\* recorded fetch status: a ReloadConfig task calls reload() only if no
\* reload() was called since the status was recorded.
C23_OneReloadPerUpdate ==
    [][(Top("consumer") = "handle_ReloadConfig" /\ ConsumerMoves
        /\ reloads > 0) => stack'["consumer"] = <<"recv">>]_vars

====
